---------------------------- MODULE Spec2Model ----------------------------
(***************************************************************************)
(* solanum: a terminal pomodoro timer.                                     *)
(*                                                                         *)
(* The model follows the three threads of control of the program and the  *)
(* channels between them:                                                  *)
(*   - Session::start (session.rs) driving Timer::start (timer.rs),       *)
(*   - EventHandler::spawn_thread (event.rs), the input listener,         *)
(*   - Ui::spawn_thread (ui.rs), the presentation sink,                   *)
(* and the top-level runner that wires them and joins them.               *)
(*                                                                         *)
(* A channel is a FIFO queue; an endpoint lives as long as the thread     *)
(* that owns it: every endpoint is moved into a thread by value            *)
(* (event.rs:19-24, session.rs:80, ui.rs:262-269).                         *)
(***************************************************************************)
EXTENDS Integers, Sequences, FiniteSets, TLC

(***************************************************************************)
(* Bounds of the model.                                                    *)
(***************************************************************************)
\* Largest total duration (seconds) given to a timer.
MaxTotal == 2
\* Largest `pomodoros` (pomodoros before a long break).
MaxN == 3
\* Number of input events the listener reads in one behaviour.
MaxInputs == 2
\* Capacity given to the (unbounded) UiCommand channel.
MaxUiQ == 1
\* Capacity given to it in SpecOrder, where commands of both senders queue up.
MaxOrderQ == 2
\* Number of pomodoros started in one behaviour of Spec.
MaxPomodoros == 1
\* Number of pomodoros started in one behaviour of SpecQuiet.
LongRun == 257
\* Number of pomodoros started in one behaviour of SpecRepeat.
MaxRepeat == 2
\* Largest total duration of SpecPerc.
MaxPercTotal == 100
\* Number of bits of usize.
WordBits == 13
\* Number of components of the duration strings parsed.
MaxParts == 2

(***************************************************************************)
(* Program constants.                                                      *)
(***************************************************************************)
\* timer.rs:22  const EXPIRED_DURATION: u64 = 5   (seconds)
EXPIRED_DURATION == 5
\* timer.rs:120 Duration::from_millis(999)
TickMillis == 999
\* session.rs:31 pomodoro_count: u8, largest value
U8Max == 255

\* session.rs:10-14 enum Activity (the kinds; Pomodoro carries a u8)
Kinds == {"Pomodoro", "ShortBreak", "LongBreak"}

\* Values of time.elapsed() (milliseconds) at the call of delay(start),
\* timer.rs:127-139: the time taken to render and send the snapshot.
ElapsedSet == {0, TickMillis, TickMillis + 1}

\* Whole seconds after which a recv_timeout(EXPIRED_DURATION) that receives a
\* message returns (timer.rs:164).
WindowWaits == {0, EXPIRED_DURATION - 2, EXPIRED_DURATION}

VARIABLES
    \* ---- Session (session.rs:28-44)
    pomodoro_count,   \* Session::pomodoro_count, u8
    pomodoros,        \* Session::pomodoros
    timers,           \* kind -> [total, residue]: Session::{pomodoro, short_break, long_break}
    \* ---- Session::start / Timer::start control state
    sPc,              \* position of the scheduler
    activity,         \* the Activity of the current Timer::start call
    runResult,        \* what the last Timer::start call returned
    startResult,      \* what Session::start returned
    elapsed,          \* time.elapsed() seen by delay(start), ms
    budget,           \* timeout handed to rx_event.recv_timeout in the tick, ms
    winElapsed,       \* start.elapsed() in the expired window, whole seconds
    \* ---- channels
    eventQ,           \* mpsc channel of Event (listener -> scheduler)
    uiQ,              \* mpsc channel of UiCommand (scheduler, listener -> ui)
    termQ,            \* mpsc channel of () (runner -> listener), number of queued signals
    \* ---- EventHandler thread
    lPc, lResult, inputs,
    \* ---- Ui thread (restored: restore_terminal has been executed)
    uPc, uResult, screen, timer_data, restored,
    \* ---- top-level runner
    rPc,
    \* ---- observation of the current Timer::start call and of the session
    run,              \* record of what the current run has done so far
    started,          \* number of pomodoros started (unbounded count)
    prevKind,         \* kind of the interval run before the current one
    seen,             \* result of the Timer::start call that last returned to Session::start
    quitRunning,      \* the quit key was read while Session::start was running
    \* ---- command line
    cli               \* the duration being parsed or made, its result and its display

sessVars  == <<pomodoro_count, pomodoros, timers>>
schedVars == <<sPc, activity, runResult, startResult, elapsed, budget, winElapsed>>
chanVars  == <<eventQ, uiQ, termQ>>
lVars     == <<lPc, lResult, inputs>>
uVars     == <<uPc, uResult, screen, timer_data, restored>>
obsVars   == <<run, started, prevKind, seen, quitRunning>>
vars == <<sessVars, schedVars, chanVars, lVars, uVars, rPc, obsVars, cli>>

(***************************************************************************)
(* Pure parts of Timer and Session.                                        *)
(***************************************************************************)
\* timer.rs:78-86 Timer::new: total = residue = duration
NewTimer(duration) == [total |-> duration, residue |-> duration]

\* timer.rs:119-123 delay: Duration::from_millis(999).checked_sub(time.elapsed())
\* .ok_or(Error::RenderTime); checked_sub is None when the result would be negative.
delay(el) ==
    IF TickMillis >= el THEN [ok |-> TRUE, dur |-> TickMillis - el]
                        ELSE [ok |-> FALSE, dur |-> 0]

\* Mutant of LoopHead: the loop condition off by one (`residue > 1`).
LoopHead_OffByOne(residue) == IF residue > 1 THEN "tick" ELSE "notify"

\* timer.rs:126 `while self.residue > 0`: where control goes from the loop head.
LoopHead(residue) == IF residue > 0 THEN "tick" ELSE "notify"

\* Mutant of TickOutcome: Skip handled like a Timeout (falls through to the decrement).
TickOutcome_SkipTicks(m) ==
    CASE m = "Timeout"      -> "decrement"
      [] m = "TogglePause"  -> "pause"
      [] m = "Skip"         -> "decrement"
      [] m = "Disconnected" -> "terminate"

\* timer.rs:139-153: the arms of the match on rx_event.recv_timeout(..)
TickOutcome(m) ==
    CASE m = "Timeout"      -> "decrement"
      [] m = "TogglePause"  -> "pause"
      [] m = "Skip"         -> "break"
      [] m = "Disconnected" -> "terminate"

\* Mutant of PausedOutcome: a disconnect while paused breaks out of the loop
\* into expiry handling instead of returning.
PausedOutcome_DisconnectBreaks(m) ==
    CASE m = "TogglePause"  -> "continue"
      [] m = "Skip"         -> "break"
      [] m = "Disconnected" -> "break"

\* timer.rs:144-148: the arms of the match on rx_event.recv() while paused
PausedOutcome(m) ==
    CASE m = "TogglePause"  -> "continue"
      [] m = "Skip"         -> "break"
      [] m = "Disconnected" -> "terminate"

\* Mutant of AfterTimeout: a tick that timed out is counted twice.
AfterTimeout_ByTwo(residue) == residue - 2

\* timer.rs:155 `self.residue -= 1`, reached only from the Timeout arm
AfterTimeout(residue) == residue - 1

\* Mutant of AfterResume: the resume falls through to `self.residue -= 1`.
AfterResume_ConsumesTick(residue) == residue - 1

\* timer.rs:145 `continue`: the loop is re-entered with residue untouched
AfterResume(residue) == residue

\* timer.rs:159 `notify(activity)?`
NotifyPropagate(ok) == IF ok THEN "continue" ELSE "Notification"

\* timer.rs:163 `while start.elapsed() <= Duration::from_secs(EXPIRED_DURATION)`
WindowOpen(el) == el <= EXPIRED_DURATION

\* Mutant of WindowOutcome: a received intent ends the window (`Ok(_) => break`).
WindowOutcome_IntentEnds(m) ==
    CASE m = "Disconnected" -> "terminate"
      [] OTHER              -> "break"

\* timer.rs:164-168: the arms of the match on recv_timeout in the expired window
WindowOutcome(m) ==
    CASE m = "Timeout"      -> "break"
      [] m = "Disconnected" -> "terminate"
      [] OTHER              -> "loop"

\* Mutant of Propagate: an error of Timer::start is dropped and the session goes on.
Propagate_Retry(res) ==
    CASE res = "true"  -> "Ok"
      [] OTHER         -> "continue"

\* session.rs:85-91, 99-104, 107-112: `if timer.start(..)? { return Ok(()) }`
Propagate(res) ==
    CASE res = "true"  -> "Ok"
      [] res = "false" -> "continue"
      [] OTHER         -> res

\* session.rs:82-113: which interval follows the one that returned Ok(false)
NextActivity(kind, count, n) ==
    IF kind = "Pomodoro"
    THEN IF count % n = 0 THEN "LongBreak" ELSE "ShortBreak"
    ELSE "Pomodoro"

\* Mutant of Recv: the end of the Sender is never reported.
Recv_NeverDisconnected(q, txAlive, whenEmpty) ==
    IF q # <<>> THEN Head(q) ELSE whenEmpty

\* std::sync::mpsc Receiver::recv / recv_timeout on a queue q whose only Sender
\* is alive or not: queued messages are delivered before a disconnect is reported.
Recv(q, txAlive, whenEmpty) ==
    IF q # <<>> THEN Head(q)
    ELSE IF ~txAlive THEN "Disconnected"
    ELSE whenEmpty


(***************************************************************************)
(* Wiring (top-level runner): which thread holds which channel endpoint.   *)
(***************************************************************************)
\* tx_event is owned by the EventHandler thread (event.rs:20,24 `move`).
EventTxAlive == lPc # "done"
\* rx_event is owned by Session::start (session.rs:80, by value).
EventRxAlive == sPc # "done"
\* rx of UiCommand is owned by the Ui thread (ui.rs:264,269 `move`).
UiRxAlive == uPc # "done"
\* Senders of UiCommand: Session::start's tx_ui and the EventHandler's tx_ui.
UiTxAlive == sPc # "done" \/ lPc # "done"

(***************************************************************************)
(* f32 arithmetic (timer.rs:106-108).  A positive f32 is a record [m, s]   *)
(* of value m * 2^(-s) with a 24-bit significand m; every operation rounds *)
(* its exact result to nearest, ties to even.  All intermediate values     *)
(* stay below 2^31 for totals below 128.                                   *)
(***************************************************************************)
Pow2(n) == 2 ^ n

\* a / b rounded to the nearest integer, ties to the even one
RoundHalfEven(a, b) ==
    LET q == a \div b
        r == a % b
    IN IF 2 * r > b \/ (2 * r = b /\ q % 2 = 1) THEN q + 1 ELSE q

\* least s with r * 2^s / t >= 2^23: the scale of the quotient's significand
F32Scale(r, t) ==
    LET c == (Pow2(23) * t + r - 1) \div r
        S == {s \in 0..30 : Pow2(s) >= c}
    IN CHOOSE s \in S : \A u \in S : s <= u

\* least k with M / 2^k < 2^24: the bits a product has beyond 24
F32Excess(M) ==
    LET K == {k \in 0..7 : M \div Pow2(k) < Pow2(24)}
    IN CHOOSE k \in K : \A u \in K : k <= u

\* `r as f32 / t as f32` for integers 0 <= r <= t, t >= 1
F32Div(r, t) ==
    IF r = 0 THEN [m |-> 0, s |-> 0]
    ELSE LET s == F32Scale(r, t) IN [m |-> RoundHalfEven(r * Pow2(s), t), s |-> s]

\* `f * c` for an f32 f and a small integer constant c
F32Mul(f, c) ==
    LET M == f.m * c
        k == F32Excess(M)
    IN [m |-> RoundHalfEven(M, Pow2(k)), s |-> f.s - k]

\* timer.rs:52 `perc as u16`: a float-to-integer cast truncates toward zero
AsU16(f) ==
    IF f.s <= 0 THEN f.m * Pow2(0 - f.s) ELSE f.m \div Pow2(f.s)

\* Mutant of remaining_percentage: the percentage elapsed instead of remaining.
remaining_percentage_Elapsed(t) == F32Mul(F32Div(t.total - t.residue, t.total), 100)

\* timer.rs:106-108 `(self.residue as f32 / self.total as f32) * 100.0`
remaining_percentage(t) == F32Mul(F32Div(t.residue, t.total), 100)

\* timer.rs:47-55 TimerData::new
TimerData(act, ascii, perc) == [activity |-> act, ascii |-> ascii, perc |-> AsU16(perc)]

\* timer.rs:129-133 TimerData::new(activity, self.to_ascii_art(), self.remaining_percentage());
\* the ASCII art is a rendering of residue.
RunningCmd(act, t) ==
    [cmd |-> "Draw", status |-> "Running",
     data |-> TimerData(act, t.residue, remaining_percentage(t))]
NoData == [activity |-> [kind |-> "Pomodoro", num |-> 0], ascii |-> 0, perc |-> 100]
PausedCmd  == [cmd |-> "Draw", status |-> "Paused", data |-> NoData]
ExpiredCmd == [cmd |-> "Draw", status |-> "Expired", data |-> NoData]
RefreshCmd == [cmd |-> "Refresh", status |-> "None", data |-> NoData]

\* What one Timer::start call has done and seen so far.
FreshRun ==
    [draws      |-> <<>>,     \* Draw commands sent by this run, in order
     notifies   |-> 0,        \* calls of notify
     notifyOk   |-> TRUE,     \* result of the last call of notify
     notifyAct  |-> [kind |-> "None", num |-> 0],   \* the activity it was called with
     notifyRes  |-> 0,        \* residue when it was called
     timeouts   |-> 0,        \* tick waits that returned Timeout
     intents    |-> 0,        \* intents received before expiry handling
     last       |-> "none",   \* what the last receive returned
     lastAt     |-> "none",   \* where it returned: "wait", "paused" or "window"
     pauseRes   |-> 0,        \* residue when TogglePause was last received in a tick wait
     skipRes    |-> 0,        \* residue when Skip was received before expiry handling
     skipLen    |-> 0,        \* number of draws sent when that Skip was received
     winIntents |-> 0,        \* intents received in the expired window
     percs      |-> <<>>,     \* perc of the Running snapshots sent by this run
     history    |-> FALSE,    \* whether the two fields below are kept
     ranBefore  |-> {},       \* kinds of the timers of which an earlier run returned false
     skippedBefore |-> {},    \* those of them whose run reached expiry by a Skip
     order      |-> FALSE,    \* whether the two fields below are kept
     emitted    |-> <<>>,     \* Draw commands sent since the session started
     shown      |-> <<>>]     \* commands the Ui thread has received, in order

Sent(st, res) == [st |-> st, res |-> res]

\* The run record r after the Draw command c has been sent.
Emitted(r, c) == IF r.order THEN [r EXCEPT !.emitted = Append(@, c)] ELSE r

\* The number of commands that the Ui channel holds at most in a behaviour.
UiQCap == IF run.order THEN MaxOrderQ ELSE MaxUiQ

T == timers[activity.kind]

\* event.rs:10-13 enum Event
Intents == {"TogglePause", "Skip"}

\* The run record after the receive at `at` returned m.
Observe(m, at) ==
    LET before == at # "window" IN
    [run EXCEPT
       !.last       = m,
       !.lastAt     = at,
       !.timeouts   = IF at = "wait" /\ m = "Timeout" THEN @ + 1 ELSE @,
       !.intents    = IF before /\ m \in Intents THEN @ + 1 ELSE @,
       !.winIntents = IF ~before /\ m \in Intents THEN @ + 1 ELSE @,
       !.pauseRes   = IF at = "wait" /\ m = "TogglePause" THEN T.residue ELSE @,
       !.skipRes    = IF before /\ m = "Skip" THEN T.residue ELSE @,
       !.skipLen    = IF before /\ m = "Skip" THEN Len(run.draws) ELSE @]

\* The record of the run that Session::start starts after the current one returned.
NextRun ==
    LET done == IF run.history /\ runResult = "false" THEN {activity.kind} ELSE {} IN
    [FreshRun EXCEPT
       !.history       = run.history,
       !.ranBefore     = run.ranBefore \cup done,
       !.skippedBefore = run.skippedBefore \cup (IF run.skipRes > 0 THEN done ELSE {}),
       !.order         = run.order,
       !.emitted       = run.emitted,
       !.shown         = run.shown]

\* The thread running Session::start ends by a panic (an `unwrap` on a failed send,
\* or an arithmetic overflow with overflow checks): its endpoints are dropped.
SchedPanic ==
    /\ sPc' = "done"
    /\ startResult' = "panic"

(***************************************************************************)
(* Session::start (session.rs:80-114)                                      *)
(***************************************************************************)
\* One step of the policy loop: take the result of the Timer::start call that
\* just returned (none at the first step), return or start the next interval.
SessionStep(cap) ==
    /\ sPc = "session"
    /\ LET out == IF activity.kind = "None" THEN "continue" ELSE Propagate(runResult)
           nk  == IF activity.kind = "None" THEN "Pomodoro"
                  ELSE NextActivity(activity.kind, pomodoro_count, pomodoros)
       IN IF out # "continue"
          THEN /\ sPc' = "done"
               /\ startResult' = out
               /\ UNCHANGED <<pomodoro_count, activity, run, started, prevKind>>
          ELSE IF nk = "Pomodoro"
          THEN /\ started < cap
               /\ started' = started + 1
               /\ \E overflow_checks \in BOOLEAN :
                  \* session.rs:84 `self.pomodoro_count += 1` at u8::MAX panics in a
                  \* build with overflow checks and wraps in one without
                  IF pomodoro_count = U8Max /\ overflow_checks
                  THEN /\ SchedPanic
                       /\ UNCHANGED <<pomodoro_count, activity, run, prevKind>>
                  ELSE /\ pomodoro_count' = (pomodoro_count + 1) % (U8Max + 1)
                       /\ activity' = [kind |-> nk, num |-> pomodoro_count']
                       /\ run' = NextRun
                       /\ prevKind' = activity.kind
                       /\ sPc' = LoopHead(timers[nk].residue)
                       /\ UNCHANGED startResult
          ELSE /\ activity' = [kind |-> nk, num |-> 0]
               /\ run' = NextRun
               /\ prevKind' = activity.kind
               /\ sPc' = LoopHead(timers[nk].residue)
               /\ UNCHANGED <<pomodoro_count, started, startResult>>
    /\ runResult' = "none"
    /\ seen' = IF activity.kind = "None" THEN "none" ELSE runResult
    /\ elapsed' = 0
    /\ budget' = 0
    /\ winElapsed' = 0
    /\ UNCHANGED <<pomodoros, timers>>
    /\ UNCHANGED <<chanVars, lVars, uVars, rPc, quitRunning>>
    /\ UNCHANGED cli

(***************************************************************************)
(* Timer::start (timer.rs:113-175)                                         *)
(***************************************************************************)
\* timer.rs:127-139: take the tick-start instant, send Draw(Running), compute
\* the delay and enter recv_timeout, or fail with RenderTime.
TickStart ==
    /\ sPc = "tick"
    /\ IF ~UiRxAlive
       THEN \* timer.rs:134 `.unwrap()` on a send whose receiver is gone
            /\ SchedPanic
            /\ UNCHANGED <<runResult, elapsed, budget, uiQ, run>>
       ELSE /\ Len(uiQ) < UiQCap
            /\ uiQ' = Append(uiQ, RunningCmd(activity, T))
            /\ run' = [Emitted(run, RunningCmd(activity, T)) EXCEPT
                          !.draws = Append(@, Sent("Running", T.residue)),
                          !.percs = Append(@, RunningCmd(activity, T).data.perc)]
            /\ \E el \in ElapsedSet :
                  LET d == delay(el) IN
                  /\ elapsed' = el
                  /\ budget' = d.dur
                  /\ IF d.ok
                     THEN /\ sPc' = "wait"
                          /\ UNCHANGED runResult
                     ELSE /\ sPc' = "session"
                          /\ runResult' = "RenderTime"
            /\ UNCHANGED startResult
    /\ UNCHANGED <<sessVars, activity, winElapsed, eventQ, termQ>>
    /\ UNCHANGED <<lVars, uVars, rPc, started, prevKind, seen, quitRunning>>
    /\ UNCHANGED cli

\* timer.rs:139-155: rx_event.recv_timeout(delay) returns.
TickWait ==
    /\ sPc = "wait"
    /\ LET m   == Recv(eventQ, EventTxAlive, "Timeout")
           out == TickOutcome(m)
           r   == T.residue
       IN /\ eventQ' = IF eventQ # <<>> THEN Tail(eventQ) ELSE eventQ
          /\ CASE out = "decrement" ->
                    /\ timers' = [timers EXCEPT ![activity.kind].residue = AfterTimeout(r)]
                    /\ sPc' = LoopHead(AfterTimeout(r))
                    /\ run' = Observe(m, "wait")
                    /\ UNCHANGED <<runResult, startResult, uiQ>>
               [] out = "pause" ->
                    IF ~UiRxAlive
                    THEN \* timer.rs:143 `.unwrap()`
                         /\ SchedPanic
                         /\ run' = Observe(m, "wait")
                         /\ UNCHANGED <<timers, runResult, uiQ>>
                    ELSE /\ Len(uiQ) < UiQCap
                         /\ uiQ' = Append(uiQ, PausedCmd)
                         /\ sPc' = "paused"
                         /\ run' = [Emitted(Observe(m, "wait"), PausedCmd) EXCEPT
                                      !.draws = Append(@, Sent("Paused", r))]
                         /\ UNCHANGED <<timers, runResult, startResult>>
               [] out = "break" ->
                    /\ sPc' = "notify"
                    /\ run' = Observe(m, "wait")
                    /\ UNCHANGED <<timers, runResult, startResult, uiQ>>
               [] out = "terminate" ->
                    /\ sPc' = "session"
                    /\ runResult' = "true"
                    /\ run' = Observe(m, "wait")
                    /\ UNCHANGED <<timers, startResult, uiQ>>
    /\ elapsed' = 0
    /\ budget' = 0
    /\ UNCHANGED <<pomodoro_count, pomodoros, activity, winElapsed, termQ>>
    /\ UNCHANGED <<lVars, uVars, rPc, started, prevKind, seen, quitRunning>>
    /\ UNCHANGED cli

\* timer.rs:144-148: rx_event.recv() returns while paused.
PausedWait ==
    /\ sPc = "paused"
    /\ LET m   == Recv(eventQ, EventTxAlive, "Block")
           r   == T.residue
       IN /\ m # "Block"
          /\ eventQ' = IF eventQ # <<>> THEN Tail(eventQ) ELSE eventQ
          /\ run' = Observe(m, "paused")
          /\ LET out == PausedOutcome(m) IN
             CASE out = "continue" ->
                    /\ timers' = [timers EXCEPT ![activity.kind].residue = AfterResume(r)]
                    /\ sPc' = LoopHead(AfterResume(r))
                    /\ UNCHANGED runResult
               [] out = "break" ->
                    /\ sPc' = "notify"
                    /\ UNCHANGED <<timers, runResult>>
               [] out = "terminate" ->
                    /\ sPc' = "session"
                    /\ runResult' = "true"
                    /\ UNCHANGED timers
    /\ UNCHANGED <<pomodoro_count, pomodoros>>
    /\ UNCHANGED <<activity, startResult, elapsed, budget, winElapsed, uiQ, termQ>>
    /\ UNCHANGED <<lVars, uVars, rPc, started, prevKind, seen, quitRunning>>
    /\ UNCHANGED cli

\* Mutant of Notified: notify is called with a fixed activity.
Notified_FixedActivity(r, act, res, ok) ==
    [r EXCEPT !.notifies = @ + 1, !.notifyOk = ok,
              !.notifyAct = [kind |-> "Pomodoro", num |-> 0], !.notifyRes = res]

\* timer.rs:159: the run record r after notify(act) was called at residue res
\* and returned ok or an error.
Notified(r, act, res, ok) ==
    [r EXCEPT !.notifies = @ + 1, !.notifyOk = ok, !.notifyAct = act, !.notifyRes = res]

\* timer.rs:159 `notify(activity)?` (notification.rs:4-30): the notification
\* server answers or not.
Notify ==
    /\ sPc = "notify"
    /\ \E ok \in BOOLEAN :
          /\ run' = Notified(run, activity, T.residue, ok)
          /\ IF NotifyPropagate(ok) = "continue"
             THEN /\ sPc' = "expired"
                  /\ UNCHANGED runResult
             ELSE /\ sPc' = "session"
                  /\ runResult' = NotifyPropagate(ok)
    /\ UNCHANGED <<sessVars, activity, startResult, elapsed, budget, winElapsed>>
    /\ UNCHANGED <<chanVars, lVars, uVars, rPc, started, prevKind, seen, quitRunning>>
    /\ UNCHANGED cli

\* timer.rs:161-164: send Draw(Expired), take the window's start instant and
\* enter the first recv_timeout.
ExpiredDraw ==
    /\ sPc = "expired"
    /\ IF ~UiRxAlive
       THEN \* timer.rs:161 `.unwrap()`
            /\ SchedPanic
            /\ UNCHANGED <<winElapsed, uiQ, run>>
       ELSE /\ Len(uiQ) < UiQCap
            /\ uiQ' = Append(uiQ, ExpiredCmd)
            /\ run' = [Emitted(run, ExpiredCmd) EXCEPT
                          !.draws = Append(@, Sent("Expired", T.residue))]
            /\ winElapsed' = 0
            /\ sPc' = "window"
            /\ UNCHANGED startResult
    /\ UNCHANGED <<sessVars, activity, runResult, elapsed, budget, eventQ, termQ>>
    /\ UNCHANGED <<lVars, uVars, rPc, started, prevKind, seen, quitRunning>>
    /\ UNCHANGED cli

\* Mutant of RunReturnsFalse: the run returns without resetting residue.
RunReturnsFalse_NoReset ==
    /\ UNCHANGED timers
    /\ sPc' = "session"
    /\ runResult' = "false"

\* timer.rs:171-174: reset residue and return Ok(false).
RunReturnsFalse ==
    /\ timers' = [timers EXCEPT ![activity.kind].residue = T.total]
    /\ sPc' = "session"
    /\ runResult' = "false"

\* timer.rs:163-169: recv_timeout(EXPIRED_DURATION) returns in the expired
\* window: after EXPIRED_DURATION on a Timeout, after w whole seconds with a
\* message; then the loop condition is evaluated again.
WindowWait ==
    /\ sPc = "window"
    /\ LET m   == Recv(eventQ, EventTxAlive, "Timeout")
           out == WindowOutcome(m)
       IN /\ eventQ' = IF eventQ # <<>> THEN Tail(eventQ) ELSE eventQ
          /\ run' = Observe(m, "window")
          /\ \E w \in IF m = "Timeout" THEN {EXPIRED_DURATION}
                      ELSE IF m = "Disconnected" THEN {0}
                      ELSE WindowWaits :
                /\ winElapsed' = winElapsed + w
                /\ CASE out = "break" -> RunReturnsFalse
                     [] out = "terminate" ->
                          /\ sPc' = "session"
                          /\ runResult' = "true"
                          /\ UNCHANGED timers
                     [] out = "loop" ->
                          IF WindowOpen(winElapsed')
                          THEN UNCHANGED <<timers, sPc, runResult>>
                          ELSE RunReturnsFalse
    /\ UNCHANGED <<pomodoro_count, pomodoros>>
    /\ UNCHANGED <<activity, startResult, elapsed, budget, uiQ, termQ>>
    /\ UNCHANGED <<lVars, uVars, rPc, started, prevKind, seen, quitRunning>>
    /\ UNCHANGED cli

(***************************************************************************)
(* EventHandler::spawn_thread (event.rs:19-53)                             *)
(***************************************************************************)
\* crossterm events read by the listener: key events with their code,
\* modifiers, state and kind, resize events, and the other event types.
KeyEvents ==
    [type : {"Key"}, code : {"p", " ", "s", "q", "x"},
     modifiers : {"NONE", "CONTROL"}, state : {"NONE", "CAPS_LOCK"},
     kind : {"Press", "Release"}]
OtherEvents ==
    [type : {"Resize", "Mouse"}, code : {"-"},
     modifiers : {"NONE"}, state : {"NONE"}, kind : {"Press"}]
InputEvents == KeyEvents \cup OtherEvents

\* Mutant of Classify: the test of modifiers, state and kind is left out.
Classify_NoFilter(ev) ==
    IF ev.type = "Key"
    THEN CASE ev.code \in {"p", " "} -> "TogglePause"
           [] ev.code = "s"          -> "Skip"
           [] ev.code = "q"          -> "return"
           [] OTHER                  -> "continue"
    ELSE IF ev.type = "Resize" THEN "Refresh"
    ELSE "ignore"

\* event.rs:26-48: what the listener does with one event it has read.
Classify(ev) ==
    IF ev.type = "Key"
    THEN IF ev.modifiers # "NONE" \/ ev.state # "NONE" \/ ev.kind # "Press"
         THEN "continue"
         ELSE CASE ev.code \in {"p", " "} -> "TogglePause"
                [] ev.code = "s"          -> "Skip"
                [] ev.code = "q"          -> "return"
                [] OTHER                  -> "continue"
    ELSE IF ev.type = "Resize" THEN "Refresh"
    ELSE "ignore"

\* Mutant of ListenerPoll: a received signal is taken but the loop goes on.
ListenerPoll_IgnoresSignal ==
    /\ lPc = "poll"
    /\ termQ' = IF termQ > 0 THEN termQ - 1 ELSE termQ
    /\ lPc' = "read"
    /\ UNCHANGED lResult
    /\ UNCHANGED <<sessVars, schedVars, eventQ, uiQ, inputs, uVars, rPc, obsVars>>
    /\ UNCHANGED cli

\* event.rs:25 `while rx_termination.try_recv().is_err()`: the loop ends only
\* when a signal is received.
ListenerPoll ==
    /\ lPc = "poll"
    /\ IF termQ > 0
       THEN /\ termQ' = termQ - 1
            /\ lPc' = "done"
            /\ lResult' = "Ok"
       ELSE /\ lPc' = "read"
            /\ UNCHANGED <<termQ, lResult>>
    /\ UNCHANGED <<sessVars, schedVars, eventQ, uiQ, inputs, uVars, rPc, obsVars>>
    /\ UNCHANGED cli

\* event.rs:27-48: the listener handles the event ev that read() returned.
ListenerHandle(ev) ==
    /\ lPc = "read"
    /\ inputs' = inputs + 1
    /\    LET c == Classify(ev) IN
          CASE c \in {"TogglePause", "Skip"} ->
                 IF ~EventRxAlive
                 THEN \* event.rs:38,40 `.unwrap()` on a send whose receiver is gone
                      /\ lPc' = "done"
                      /\ lResult' = "panic"
                      /\ UNCHANGED <<eventQ, uiQ, quitRunning>>
                 ELSE /\ eventQ' = Append(eventQ, c)
                      /\ lPc' = "poll"
                      /\ UNCHANGED <<lResult, uiQ, quitRunning>>
            [] c = "return" ->
                 /\ lPc' = "done"
                 /\ lResult' = "Ok"
                 /\ quitRunning' = (quitRunning \/ sPc # "done")
                 /\ UNCHANGED <<eventQ, uiQ>>
            [] c = "Refresh" ->
                 IF ~UiRxAlive
                 THEN \* event.rs:46 `.unwrap()`
                      /\ lPc' = "done"
                      /\ lResult' = "panic"
                      /\ UNCHANGED <<eventQ, uiQ, quitRunning>>
                 ELSE /\ Len(uiQ) < UiQCap
                      /\ uiQ' = Append(uiQ, RefreshCmd)
                      /\ lPc' = "poll"
                      /\ UNCHANGED <<lResult, eventQ, quitRunning>>
            [] OTHER ->
                 /\ lPc' = "poll"
                 /\ UNCHANGED <<lResult, eventQ, uiQ, quitRunning>>
    /\ UNCHANGED <<sessVars, schedVars, termQ, uVars, rPc, run, started, prevKind, seen>>
    /\ UNCHANGED cli

\* event.rs:26 read() returns an event (at most MaxInputs in one behaviour).
ListenerRead ==
    /\ inputs < MaxInputs
    /\ \E ev \in InputEvents : ListenerHandle(ev)

\* event.rs:26 `read()?`: the input source fails.
ListenerReadError ==
    /\ lPc = "read"
    /\ lPc' = "done"
    /\ lResult' = "Err"
    /\ UNCHANGED <<sessVars, schedVars, chanVars, inputs, uVars, rPc, obsVars>>
    /\ UNCHANGED cli

(***************************************************************************)
(* Ui::spawn_thread (ui.rs:261-294)                                        *)
(***************************************************************************)
\* Mutant of ScreenOf: every Draw command selects the timer screen.
ScreenOf_AlwaysRunning(status) == "Running"

\* ui.rs:271-282: the screen selected by a Draw command.
ScreenOf(status) == status

\* Mutant of UiRecv: the newest command of the channel is received first.
UiRecv_Newest(q) == [cmd |-> q[Len(q)], rest |-> SubSeq(q, 1, Len(q) - 1)]

\* ui.rs:269 `for ui_command in rx`: the oldest command of the channel is
\* received and leaves it.
UiRecv(q) == [cmd |-> Head(q), rest |-> Tail(q)]

\* ui.rs:270-287: one command is received and handled; drawing succeeds or
\* fails, and a failure returns from the thread (`?`).
UiCommandStep ==
    /\ uPc = "recv"
    /\ uiQ # <<>>
    /\ uiQ' = UiRecv(uiQ).rest
    /\ LET c == UiRecv(uiQ).cmd IN
       /\ screen' = IF c.cmd = "Draw" THEN ScreenOf(c.status) ELSE screen
       /\ timer_data' = IF c.cmd = "Draw" /\ c.status = "Running" THEN c.data
                        ELSE timer_data
       /\ run' = IF run.order THEN [run EXCEPT !.shown = Append(@, c)] ELSE run
    /\ \E ok \in BOOLEAN :
          IF ok THEN UNCHANGED <<uPc, uResult>>
          ELSE /\ uPc' = "done"
               /\ uResult' = "Err"
    /\ UNCHANGED restored
    /\ UNCHANGED <<sessVars, schedVars, eventQ, termQ, lVars, rPc>>
    /\ UNCHANGED <<started, prevKind, seen, quitRunning>>
    /\ UNCHANGED cli

\* ui.rs:270,289-293: every Sender is gone and the queue is empty: the loop
\* ends and restore_terminal is executed (`restored`); it succeeds or fails.
UiClosed ==
    /\ uPc = "recv"
    /\ uiQ = <<>>
    /\ ~UiTxAlive
    /\ uPc' = "done"
    /\ restored' = TRUE
    /\ \E ok \in BOOLEAN : uResult' = IF ok THEN "Ok" ELSE "Err"
    /\ UNCHANGED <<screen, timer_data>>
    /\ UNCHANGED <<sessVars, schedVars, chanVars, lVars, rPc, obsVars>>
    /\ UNCHANGED cli

(***************************************************************************)
(* Top-level runner                                                        *)
(***************************************************************************)
\* Session::start has returned: on an error the cancellation signal is sent.
RunnerAfterStart ==
    /\ rPc = "start"
    /\ sPc = "done"
    /\ IF startResult = "panic"
       THEN /\ rPc' = "panicked"
            /\ UNCHANGED termQ
       ELSE /\ rPc' = "join_event"
            /\ termQ' = IF startResult # "Ok" THEN termQ + 1 ELSE termQ
    /\ UNCHANGED <<sessVars, schedVars, eventQ, uiQ, lVars, uVars, obsVars>>
    /\ UNCHANGED cli

\* The runner joins the EventHandler thread.
RunnerJoinEvent ==
    /\ rPc = "join_event"
    /\ lPc = "done"
    /\ rPc' = "join_ui"
    /\ UNCHANGED <<sessVars, schedVars, chanVars, lVars, uVars, obsVars>>
    /\ UNCHANGED cli

\* The runner joins the Ui thread and reports.
RunnerJoinUi ==
    /\ rPc = "join_ui"
    /\ uPc = "done"
    /\ rPc' = "exit"
    /\ UNCHANGED <<sessVars, schedVars, chanVars, lVars, uVars, obsVars>>
    /\ UNCHANGED cli

(***************************************************************************)
(* Durations on the command line and in the configuration file             *)
(* (timer.rs:78-97, 178-248; args.rs; config.rs:40-58).  A string is a      *)
(* sequence of characters; usize has WordBits bits.                         *)
(***************************************************************************)
\* error.rs:41 usize::MAX
UsizeMax == 2 ^ WordBits - 1

\* The value kept by a wrapping operation on usize.
Wrap(x) == x % (UsizeMax + 1)

DigitChars == <<"0", "1", "2", "3", "4", "5", "6", "7", "8", "9">>
IsDigit(c) == \E d \in 1..10 : DigitChars[d] = c
DigitVal(c) == (CHOOSE d \in 1..10 : DigitChars[d] = c) - 1

\* timer.rs:201, 213: the unit letters.
UnitLetters == {"h", "H", "m", "M", "s", "S"}

\* Mutant of UnitScale: every unit counts seconds.
UnitScale_Seconds(c) == 1

\* timer.rs:224-228: seconds in one unit.
UnitScale(c) ==
    CASE c \in {"h", "H"} -> 3600
      [] c \in {"m", "M"} -> 60
      [] OTHER            -> 1

\* x, or UsizeMax + 1 for every x that does not fit usize.
Fit(x) == IF x > UsizeMax THEN UsizeMax + 1 ELSE x

\* The number written by a sequence of digits (UsizeMax + 1 if it does not
\* fit usize).
RECURSIVE Value(_)
Value(v) ==
    IF v = <<>> THEN 0
    ELSE Fit(10 * Value(SubSeq(v, 1, Len(v) - 1)) + DigitVal(v[Len(v)]))

\* timer.rs:222 v.parse::<usize>(): Err when the number does not fit usize.
ParseUsize(v) ==
    IF Value(v) > UsizeMax THEN [ok |-> FALSE, v |-> 0] ELSE [ok |-> TRUE, v |-> Value(v)]

\* Results of Timer::from_str and Timer::new.
OkTimer(duration) == [tag |-> "Ok", total |-> duration]
ParseTimerErr     == [tag |-> "ParseTimer", total |-> 0]
TimerOverflowErr  == [tag |-> "TimerOverflow", total |-> 0]
Panicked          == [tag |-> "panic", total |-> 0]

\* timer.rs:211-241: the loop over the characters from position i, with the
\* digits collected so far and the duration so far.  overflow_checks is the
\* build's setting: `value *= ..` panics with it and wraps without it.
RECURSIVE Scan(_, _, _, _, _)
Scan(s, i, chars, duration, overflow_checks) ==
    IF i > Len(s) THEN OkTimer(duration)
    ELSE IF s[i] \in UnitLetters
    THEN IF chars = <<>> THEN ParseTimerErr
         ELSE IF ~ParseUsize(chars).ok THEN Panicked
         ELSE LET prod == ParseUsize(chars).v * UnitScale(s[i]) IN
              IF prod > UsizeMax /\ overflow_checks THEN Panicked
              ELSE IF duration + Wrap(prod) > UsizeMax THEN TimerOverflowErr
              ELSE Scan(s, i + 1, <<>>, duration + Wrap(prod), overflow_checks)
    ELSE IF ~IsDigit(s[i]) THEN ParseTimerErr
    ELSE Scan(s, i + 1, Append(chars, s[i]), duration, overflow_checks)

\* timer.rs:200-247 Timer::from_str
from_str(s, overflow_checks) ==
    IF s = <<>> \/ s[Len(s)] \notin UnitLetters THEN ParseTimerErr
    ELSE Scan(s, 1, <<>>, 0, overflow_checks)

\* timer.rs:78-86 Timer::new: seconds + (minutes + hours * 60) * 60 on usize.
Timer_new(hours, minutes, seconds, overflow_checks) ==
    LET a == hours * 60
        b == minutes + Wrap(a)
        c == Wrap(b) * 60
        d == seconds + Wrap(c)
    IN IF overflow_checks /\ (a > UsizeMax \/ b > UsizeMax \/ c > UsizeMax \/ d > UsizeMax)
       THEN Panicked
       ELSE OkTimer(Wrap(d))

\* Mutant of hms: the minutes are not reduced by the hours.
hms_NoCarry(t) ==
    [hours |-> t.residue \div 3600, minutes |-> t.residue \div 60,
     seconds |-> (t.residue % 3600) % 60]

\* timer.rs:89-97 Timer::hms
hms(t) ==
    [hours |-> t.residue \div 3600, minutes |-> (t.residue % 3600) \div 60,
     seconds |-> (t.residue % 3600) % 60]

\* `{}` of a usize: its decimal digits.
RECURSIVE Dec(_)
Dec(n) ==
    IF n < 10 THEN <<DigitChars[n + 1]>>
    ELSE Dec(n \div 10) \o <<DigitChars[(n % 10) + 1]>>

\* timer.rs:178-195 Display for Timer
Display(t) ==
    (IF hms(t).hours > 0 THEN Dec(hms(t).hours) \o <<"h">> ELSE <<>>)
    \o (IF hms(t).minutes > 0 THEN Dec(hms(t).minutes) \o <<"m">> ELSE <<>>)
    \o (IF hms(t).seconds > 0 THEN Dec(hms(t).seconds) \o <<"s">> ELSE <<>>)

\* The numbers written in the strings checked, and what ends a component.
Numerals ==
    {<<>>, <<"0">>, <<"1">>, <<"2">>, <<"3">>, <<"5", "9">>, <<"6", "0">>,
     <<"0", "1">>, <<"9", "9", "9", "9">>}
Ends == {<<"h">>, <<"m">>, <<"s">>, <<"H">>, <<"x">>, <<>>}

\* Strings of up to k components, each a number and an end, in any order.
RECURSIVE Strings(_)
Strings(k) ==
    IF k = 0 THEN {<<>>}
    ELSE Strings(k - 1) \cup {a \o n \o e : a \in Strings(k - 1), n \in Numerals, e \in Ends}

\* Strings with an hours, a minutes and a seconds component, each there or not.
Slot(n, u) == IF n = <<>> THEN <<>> ELSE n \o <<u>>
Slotted == {Slot(a, "h") \o Slot(b, "m") \o Slot(c, "s") : a, b, c \in Numerals}

\* Arguments of Timer::new checked (those of timer.rs:317-320 among them).
HmsInputs == {0, 1, 2, 3, 5} \X {0, 2, 5, 10, 60, 137} \X {0, 4, 10, 59, 122, 3600}

\* Values of the option `-n` (args.rs:19-20): absent, or a u8.
None == [some |-> FALSE, v |-> 0]
Some(v) == [some |-> TRUE, v |-> v]
PomodorosArgs == {None, Some(0), Some(1), Some(4)}

\* No command line is being processed (the specifications of the session).
CliIdle == [pc |-> "idle", src |-> "none", s |-> <<>>, hms |-> <<0, 0, 0>>,
            res |-> OkTimer(0), out |-> <<>>]

\* The timer of a successful result.
TimerOf(res) == [total |-> res.total, residue |-> res.total]

\* args.rs:10-11 / timer.rs:297: a duration string is parsed.
CliFromStr ==
    /\ cli.pc = "args"
    /\ cli.src = "str"
    /\ \E overflow_checks \in BOOLEAN :
          cli' = [cli EXCEPT !.pc = "parsed", !.res = from_str(cli.s, overflow_checks)]
    /\ UNCHANGED <<sessVars, schedVars, chanVars, lVars, uVars, rPc, obsVars>>

\* A timer is made by Timer::new.
CliNew ==
    /\ cli.pc = "args"
    /\ cli.src = "hms"
    /\ \E overflow_checks \in BOOLEAN :
          cli' = [cli EXCEPT !.pc = "parsed",
                             !.res = Timer_new(cli.hms[1], cli.hms[2], cli.hms[3],
                                               overflow_checks)]
    /\ UNCHANGED <<sessVars, schedVars, chanVars, lVars, uVars, rPc, obsVars>>

\* The timer obtained is displayed (to_string).
CliDisplay ==
    /\ cli.pc = "parsed"
    /\ cli.res.tag = "Ok"
    /\ cli' = [cli EXCEPT !.pc = "displayed", !.out = Display(TimerOf(cli.res))]
    /\ UNCHANGED <<sessVars, schedVars, chanVars, lVars, uVars, rPc, obsVars>>

\* config.rs:40-58 override_with_args with the parsed duration as the option
\* --pomodoro and n as the option -n; then Session::start is called.
CliOverride ==
    /\ cli.pc = "parsed"
    /\ cli.src = "str"
    /\ cli.res.tag = "Ok"
    /\ \E n \in PomodorosArgs :
          pomodoros' = IF n.some THEN n.v ELSE pomodoros
    /\ timers' = [timers EXCEPT !["Pomodoro"] = TimerOf(cli.res)]
    /\ cli' = [cli EXCEPT !.pc = "start"]
    /\ UNCHANGED <<pomodoro_count, schedVars, chanVars, lVars, uVars, rPc, obsVars>>

(***************************************************************************)
(* Specifications                                                          *)
(***************************************************************************)
\* session.rs:66-76 and config.rs:40-58: a session with its three timers and
\* its policy; timer.rs:57-65 TimerData::default; the threads at their start.
InitThreads ==
    /\ runResult = "none"
    /\ startResult = "running"
    /\ elapsed = 0
    /\ budget = 0
    /\ winElapsed = 0
    /\ uiQ = <<>>
    /\ termQ = 0
    /\ lPc = "poll"
    /\ lResult = "running"
    /\ uPc = "recv"
    /\ uResult = "running"
    /\ screen = "Running"
    /\ timer_data = NoData
    /\ restored = FALSE
    /\ rPc = "start"
    /\ prevKind = "None"
    /\ seen = "none"
    /\ quitRunning = FALSE

InitRun(policies, ns, r) ==
    /\ pomodoro_count = 0
    /\ pomodoros \in ns
    /\ \E d \in policies :
          timers = [k \in Kinds |-> CASE k = "Pomodoro"   -> NewTimer(d[1])
                                      [] k = "ShortBreak" -> NewTimer(d[2])
                                      [] k = "LongBreak"  -> NewTimer(d[3])]
    /\ sPc = "session"
    /\ activity = [kind |-> "None", num |-> 0]
    /\ run = r
    /\ started = 0
    /\ eventQ = <<>>
    /\ inputs = 0
    /\ cli = CliIdle
    /\ InitThreads

InitWith(policies, ns) == InitRun(policies, ns, FreshRun)

\* The durations <<pomodoro, short_break, long_break>> of the sessions checked:
\* every pomodoro duration up to MaxTotal, the shortest short break, and a long
\* break that differs from the pomodoro.
Policies == {<<p, 1, MaxTotal + 1 - p>> : p \in 1..MaxTotal}

\* Spec draws the long-break interval from its two extremes: a long break
\* after every pomodoro, or after every MaxN-th.
Init == InitWith(Policies, {1, MaxN})

Next ==
    \/ SessionStep(MaxPomodoros)
    \/ TickStart
    \/ TickWait
    \/ PausedWait
    \/ Notify
    \/ ExpiredDraw
    \/ WindowWait
    \/ ListenerPoll
    \/ ListenerRead
    \/ ListenerReadError
    \/ UiCommandStep
    \/ UiClosed
    \/ RunnerAfterStart
    \/ RunnerJoinEvent
    \/ RunnerJoinUi

Spec == Init /\ [][Next]_vars

\* A session in which no input event arrives: the listener stays blocked in
\* read() (event.rs:26) and only the scheduler and the Ui thread take steps.
\* One-second timers keep the run of LongRun pomodoros short.
InitQuiet == InitWith({<<1, 1, 1>>}, 1..MaxN)

NextQuiet ==
    \/ SessionStep(LongRun)
    \/ TickStart
    \/ TickWait
    \/ Notify
    \/ ExpiredDraw
    \/ WindowWait
    \/ UiCommandStep

SpecQuiet == InitQuiet /\ [][NextQuiet]_vars

\* A session with one policy and a long break after every pomodoro, in which
\* the pomodoro timer and the long-break timer are run more than once; the
\* listener forwards intents and may quit.  The run record keeps which timers
\* have run before.
InitRepeat == InitRun({<<MaxTotal, 1, 1>>}, {1}, [FreshRun EXCEPT !.history = TRUE])

NextRepeat ==
    \/ SessionStep(MaxRepeat)
    \/ TickStart
    \/ TickWait
    \/ PausedWait
    \/ Notify
    \/ ExpiredDraw
    \/ WindowWait
    \/ ListenerPoll
    \/ ListenerRead
    \/ UiCommandStep

SpecRepeat == InitRepeat /\ [][NextRepeat]_vars

\* A session of one-second timers in which the run record keeps every Draw
\* command sent and every command the Ui thread received; the listener forwards
\* intents and resize events, and the Ui channel holds up to MaxOrderQ commands.
InitOrder == InitRun({<<1, 1, 1>>}, {1}, [FreshRun EXCEPT !.order = TRUE])

NextOrder ==
    \/ SessionStep(MaxPomodoros)
    \/ TickStart
    \/ TickWait
    \/ PausedWait
    \/ Notify
    \/ ExpiredDraw
    \/ WindowWait
    \/ ListenerPoll
    \/ ListenerRead
    \/ UiCommandStep

SpecOrder == InitOrder /\ [][NextOrder]_vars

\* The whole program on the shortest session: one-second timers, a long break
\* after every pomodoro.
InitShort == InitWith({<<1, 1, 1>>}, {1})

SpecShort == InitShort /\ [][Next]_vars

\* Scheduling: a thread that can take a step eventually takes it (the
\* scheduler, the Ui thread, the runner, and the listener's poll of the
\* cancellation channel).  Nothing makes an input event arrive: read()
\* (event.rs:26) returns only when the user or the terminal produces one.
\* The steps of the thread that runs Session::start, of the Ui thread and of
\* the runner; each thread has at most one of its steps enabled at a time.
SchedulerStep ==
    \/ SessionStep(MaxPomodoros)
    \/ TickStart
    \/ TickWait
    \/ PausedWait
    \/ Notify
    \/ ExpiredDraw
    \/ WindowWait
UiStep == UiCommandStep \/ UiClosed
RunnerStep == RunnerAfterStart \/ RunnerJoinEvent \/ RunnerJoinUi

Fairness ==
    /\ WF_vars(SchedulerStep)
    /\ WF_vars(UiStep)
    /\ WF_vars(RunnerStep)
    /\ WF_vars(ListenerPoll)

SpecLive == InitShort /\ [][Next]_vars /\ Fairness

\* The countdown of a fresh pomodoro timer of any total up to MaxPercTotal,
\* with no failure: the snapshot of every residue is built.  Either no input
\* arrives, or the listener has forwarded two presses of the pause key before
\* the first tick, so that the timer is paused and resumed in its first tick.
InitPerc ==
    /\ pomodoro_count = 1
    /\ pomodoros = 1
    /\ \E t \in 1..MaxPercTotal :
          timers = [k \in Kinds |-> IF k = "Pomodoro" THEN NewTimer(t) ELSE NewTimer(1)]
    /\ sPc = "tick"
    /\ activity = [kind |-> "Pomodoro", num |-> 1]
    /\ run = FreshRun
    /\ started = 1
    /\ \E q \in {<<>>, <<"TogglePause", "TogglePause">>} :
          /\ eventQ = q
          /\ inputs = Len(q)
    /\ cli = CliIdle
    /\ InitThreads

\* timer.rs:127-139 with the Ui thread taken out: the snapshot is built as in
\* TickStart and handed over at once, and rendering takes no time.
Snapshot ==
    /\ sPc = "tick"
    /\ timer_data' = RunningCmd(activity, T).data
    /\ run' = [run EXCEPT !.draws = Append(@, Sent("Running", T.residue)),
                          !.percs = Append(@, RunningCmd(activity, T).data.perc)]
    /\ elapsed' = 0
    /\ budget' = delay(0).dur
    /\ sPc' = "wait"
    /\ UNCHANGED <<sessVars, activity, runResult, startResult, winElapsed>>
    /\ UNCHANGED <<chanVars, lVars, uPc, uResult, screen, restored, rPc>>
    /\ UNCHANGED <<started, prevKind, seen, quitRunning>>
    /\ UNCHANGED cli

NextPerc ==
    \/ Snapshot
    \/ TickWait
    \/ PausedWait

SpecPerc == InitPerc /\ [][NextPerc]_vars

\* session.rs:46-76 Session::default, and one command line: a duration string
\* or the arguments of Timer::new.
InitCli ==
    /\ pomodoro_count = 0
    /\ pomodoros = 4
    /\ timers = [k \in Kinds |-> CASE k = "Pomodoro"   -> TimerOf(Timer_new(0, 25, 0, TRUE))
                                   [] k = "ShortBreak" -> TimerOf(Timer_new(0, 5, 0, TRUE))
                                   [] k = "LongBreak"  -> TimerOf(Timer_new(0, 15, 0, TRUE))]
    /\ sPc = "session"
    /\ activity = [kind |-> "None", num |-> 0]
    /\ run = FreshRun
    /\ started = 0
    /\ eventQ = <<>>
    /\ inputs = 0
    /\ InitThreads
    /\ \/ \E s \in Strings(MaxParts) \cup Slotted :
             cli = [CliIdle EXCEPT !.pc = "args", !.src = "str", !.s = s]
       \/ \E a \in HmsInputs :
             cli = [CliIdle EXCEPT !.pc = "args", !.src = "hms", !.hms = a]

NextCli ==
    \/ CliFromStr
    \/ CliNew
    \/ CliDisplay
    \/ CliOverride

SpecCli == InitCli /\ [][NextCli]_vars

(***************************************************************************)
(* Properties                                                              *)
(***************************************************************************)
InRun == activity.kind # "None"
ExpiredSent == \E i \in 1..Len(run.draws) : run.draws[i].st = "Expired"
RunningSent == SelectSeq(run.draws, LAMBDA x : x.st = "Running")
\* The snapshots of a countdown from d: residues d, d-1, ..., 1.
Countdown(d) == [i \in 1..d |-> Sent("Running", d + 1 - i)]

\* C1 (as amended): in a run that receives no intent before expiry, the
\* Draw(Running) snapshots are sent with residues d, d-1, ..., 1 in this order,
\* and Draw(Expired) is sent only after all d of them.
C1_CountdownSnapshots ==
    (InRun /\ run.intents = 0) =>
        LET d == T.total
            n == Len(run.draws)
        IN IF ExpiredSent
           THEN run.draws = Countdown(d) \o <<Sent("Expired", 0)>>
           ELSE n <= d /\ run.draws = SubSeq(Countdown(d), 1, n)

\* C1 as stated: the d snapshots sent before Draw(Expired) carry the residues
\* d-1, d-2, ..., 0.
C1_Original ==
    (InRun /\ run.intents = 0 /\ ExpiredSent) =>
        RunningSent = [i \in 1..T.total |-> Sent("Running", T.total - i)]

C1_Witness ==
    InRun /\ run.intents = 0 /\ T.total >= 2 /\ ExpiredSent

\* C2: the interval run after the k-th completed pomodoro is a LongBreak iff
\* k mod pomodoros = 0 and a ShortBreak otherwise, and the interval run after
\* a break is a Pomodoro. `started` is k while the break after the k-th
\* pomodoro runs.
C2_LongBreakPolicy ==
    /\ activity.kind = "LongBreak" =>
          (prevKind = "Pomodoro" /\ started % pomodoros = 0)
    /\ activity.kind = "ShortBreak" =>
          (prevKind = "Pomodoro" /\ started % pomodoros # 0)
    /\ (activity.kind = "Pomodoro" /\ prevKind # "None") =>
          prevKind \in {"ShortBreak", "LongBreak"}

\* C3: once Skip is received at residue r > 0, in the tick wait or while
\* paused, the run is in expiry handling: control goes to notify, residue stays
\* r until the reset, no Draw(Running) below r was or is sent, and the only
\* Draw sent after the Skip is Draw(Expired).
C3_SkipGoesToExpiry ==
    run.skipRes > 0 =>
        /\ sPc \in {"notify", "expired", "window", "session", "done"}
        /\ (run.last = "Skip" /\ run.notifies = 0) => sPc = "notify"
        /\ sPc \in {"notify", "expired", "window"} => T.residue = run.skipRes
        /\ SubSeq(run.draws, run.skipLen + 1, Len(run.draws))
              \in {<<>>, <<Sent("Expired", run.skipRes)>>}
        /\ \A i \in 1..Len(run.draws) :
              run.draws[i].st = "Running" => run.draws[i].res >= run.skipRes

C3_Witness ==
    /\ run.skipRes > 0
    /\ run.skipRes < T.total
    /\ run.skipLen > 0
    /\ run.draws[run.skipLen].st = "Paused"
    /\ run.draws[Len(run.draws)].st = "Expired"

\* C4: a TogglePause received in the tick wait sends Draw(Paused) and blocks;
\* a TogglePause received while paused resumes the countdown with the residue
\* the pause began with; whatever the number of pauses, residue is total minus
\* the number of ticks that timed out.
C4_PauseKeepsResidue ==
    /\ sPc = "paused" =>
          /\ run.draws # <<>>
          /\ run.draws[Len(run.draws)] = Sent("Paused", T.residue)
          /\ T.residue = run.pauseRes
    /\ (run.last = "TogglePause" /\ run.lastAt = "wait") => sPc \in {"paused", "done"}
    /\ (run.last = "TogglePause" /\ run.lastAt = "paused") =>
          /\ T.residue = run.pauseRes
          /\ sPc \in {"tick", "wait", "session", "done"}
    /\ sPc \in {"tick", "wait", "paused"} => T.residue = T.total - run.timeouts

C4_Witness ==
    /\ run.last = "TogglePause"
    /\ run.lastAt = "paused"
    /\ sPc = "wait"
    /\ run.timeouts > 0

\* C5: a disconnect seen in the tick wait or while paused makes the run return
\* true with no call of notify and no Draw(Expired), and Session::start then
\* returns Ok without starting another interval.
C5_DisconnectTerminates ==
    /\ (run.last = "Disconnected" /\ run.lastAt \in {"wait", "paused"}) =>
          /\ run.notifies = 0
          /\ ~ExpiredSent
          /\ sPc \in {"session", "done"}
          /\ sPc = "session" => runResult = "true"
    /\ seen = "true" => (sPc = "done" /\ startResult = "Ok")

C5_Witness ==
    /\ run.last = "Disconnected"
    /\ run.lastAt = "paused"
    /\ sPc = "done"
    /\ startResult = "Ok"

\* C6: the run fails with RenderTime iff 1000 ms - elapsed <= 0, and otherwise
\* waits for an intent for 1000 ms - elapsed, so that a tick without intent
\* lasts 1000 ms from its start.
C6_TickBudget ==
    /\ runResult = "RenderTime" => 1000 - elapsed <= 0
    /\ sPc = "wait" => (1000 - elapsed > 0 /\ budget = 1000 - elapsed)

\* C7: a RenderTime error of a run is returned by Session::start at once: the
\* failing run has called notify no time and its last Draw is the snapshot of
\* the tick that overran, and no further interval is started.
C7_RenderTimeFatal ==
    /\ runResult = "RenderTime" => sPc = "session"
    /\ seen = "RenderTime" => (sPc = "done" /\ startResult = "RenderTime")
    /\ startResult = "RenderTime" =>
          /\ seen = "RenderTime"
          /\ run.notifies = 0
          /\ run.draws # <<>>
          /\ run.draws[Len(run.draws)].st = "Running"

C7_Witness ==
    startResult = "RenderTime" /\ activity.kind # "Pomodoro"

\* C8: a failure of notify is not fatal: after it the run does not return an
\* error and Session::start does not end with one.
C8_NotifyFailureNonFatal ==
    (run.notifies > 0 /\ ~run.notifyOk) =>
        (runResult # "Notification" /\ startResult # "Notification")

\* C9 (as amended): in the expired window a received intent is dropped and the
\* run goes on waiting as long as no more than EXPIRED_DURATION has elapsed;
\* the run resets residue and returns false only after a wait that timed out
\* or after an intent received later than EXPIRED_DURATION; a disconnect makes
\* the run return true at once.
C9_WindowEnds ==
    /\ (run.lastAt = "window" /\ run.last \in Intents /\ WindowOpen(winElapsed)) =>
          sPc = "window"
    /\ (run.lastAt = "window" /\ sPc = "session" /\ runResult = "false") =>
          /\ T.residue = T.total
          /\ run.last = "Timeout" \/ ~WindowOpen(winElapsed)
    /\ (run.lastAt = "window" /\ run.last \in {"Timeout", "Disconnected"}) =>
          /\ sPc \in {"session", "done"}
          /\ sPc = "session" =>
                runResult = (IF run.last = "Timeout" THEN "false" ELSE "true")

\* C9 as stated: the first intent received in the expired window ends it.
C9_Original ==
    run.winIntents > 0 => sPc \in {"session", "done"}

C9_Witness ==
    /\ run.winIntents > 0
    /\ run.last = "Timeout"
    /\ sPc = "session"
    /\ runResult = "false"

\* C10 (its safety part): when the quit key was read while Session::start was
\* running, and neither a RenderTime error nor a failure of the Ui thread
\* occurred, Session::start returns Ok.
C10_QuitReturnsOk ==
    (quitRunning /\ sPc = "done" /\ startResult # "RenderTime" /\ uResult # "Err") =>
        startResult = "Ok"

\* Results of Session::start that are errors.
ErrResults == {"RenderTime", "Notification"}

\* C11: after Session::start returned RenderTime and the runner sent the
\* cancellation signal, the listener thread and the Ui thread eventually end,
\* whether or not an input event arrives.  Behaviours in which the listener has
\* read MaxInputs events are left aside, so that a behaviour that refutes the
\* property is one in which read() could still return an event and none arrives.
C11_NoThreadBlockedForever ==
    (startResult = "RenderTime" /\ rPc = "join_event")
        ~> ((lPc = "done" /\ uPc = "done") \/ inputs = MaxInputs)

\* C12 (as amended): when the listener polls the cancellation channel and finds
\* the signal, it leaves its loop and returns Ok without reading an event and
\* without sending anything; an event that a read already under way returns
\* after the signal was sent is still handled.
C12_PollExits ==
    [][(lPc = "poll" /\ termQ > 0 /\ lPc' # lPc) =>
          /\ lPc' = "done"
          /\ lResult' = "Ok"
          /\ inputs' = inputs
          /\ eventQ' = eventQ
          /\ uiQ' = uiQ]_vars

\* C12 as stated: no event read while the signal is set makes the listener
\* send a message.
C12_Original ==
    [][(termQ > 0 /\ inputs' # inputs) => (eventQ' = eventQ /\ uiQ' = uiQ)]_vars

C12_Witness ==
    /\ startResult \in ErrResults
    /\ rPc \in {"join_event", "join_ui", "exit"}
    /\ termQ = 0
    /\ inputs > 0
    /\ lResult = "Ok"

\* C13: when Session::start returned an error, the runner reports it only after
\* the listener thread and the Ui thread have ended and the terminal has been
\* restored.
C13_ReportAfterJoinsAndRestore ==
    (rPc = "exit" /\ startResult \in ErrResults) =>
        (lPc = "done" /\ uPc = "done" /\ restored)

\* C14: whenever the Ui thread has ended, restore_terminal has been executed.
C14_RestoredOnExit ==
    uPc = "done" => restored

\* C15: every timer has 0 <= residue <= total in every reachable state.
C15_ResidueInRange ==
    \A k \in Kinds : timers[k].residue >= 0 /\ timers[k].residue <= timers[k].total

C15_Witness ==
    /\ activity.kind = "Pomodoro"
    /\ started = 2
    /\ run.intents = 2
    /\ run.pauseRes > 0
    /\ T.residue = 0

\* a / b rounded to the nearest integer, halves upwards
Nearest(a, b) == (2 * a + b) \div (2 * b)

\* C16: the perc of a Running snapshot is residue / total * 100 rounded to the
\* nearest integer.
C16_PercentIsRounded ==
    sPc = "wait" => timer_data.perc = Nearest(T.residue * 100, T.total)

\* C17: the percs of the Running snapshots of one run never increase, also
\* across a pause and its resume, and each lies in 0..100.
C17_PercentMonotone ==
    \A i \in 1..Len(run.percs) :
        /\ run.percs[i] \in 0..100
        /\ i > 1 => run.percs[i] <= run.percs[i - 1]

C17_Witness ==
    /\ T.total = MaxPercTotal
    /\ run.pauseRes > 0
    /\ run.timeouts > 1
    /\ Len(run.percs) > 3
    /\ run.percs[Len(run.percs)] < run.percs[1]

\* C18: the k-th pomodoro run carries the ordinal k, and the counter never
\* makes the scheduler abort: the thread of Session::start does not panic while
\* the Ui thread is there to receive its commands.
C18_OrdinalIsCount ==
    /\ activity.kind = "Pomodoro" => activity.num = started
    /\ ~(startResult = "panic" /\ UiRxAlive)

\* C19: when a run returns false residue equals total, and a later run of the
\* same timer that receives no intent sends the Draw commands of the first run
\* of a new timer of that total: Running d, d-1, ..., 1, then Expired.
C19_ResetReproduces ==
    /\ (sPc = "session" /\ runResult = "false") => T.residue = T.total
    /\ (InRun /\ activity.kind \in run.ranBefore /\ run.intents = 0) =>
          LET d == NewTimer(T.total).residue
              n == Len(run.draws)
          IN IF ExpiredSent
             THEN run.draws = Countdown(d) \o <<Sent("Expired", 0)>>
             ELSE n <= d /\ run.draws = SubSeq(Countdown(d), 1, n)

C19_Witness ==
    /\ activity.kind = "Pomodoro"
    /\ "Pomodoro" \in run.skippedBefore
    /\ T.total >= 2
    /\ run.intents = 0
    /\ ExpiredSent

\* A key press with no modifiers, no state flags and kind Press.
PlainPress(ev) ==
    ev.type = "Key" /\ ev.modifiers = "NONE" /\ ev.state = "NONE" /\ ev.kind = "Press"

\* The listener sends the intent i and goes on; the send to a receiver that is
\* gone ends the thread.
SendsIntent(i) ==
    \/ eventQ' = Append(eventQ, i) /\ uiQ' = uiQ /\ lPc' = "poll" /\ lResult' = lResult
    \/ ~EventRxAlive /\ eventQ' = eventQ /\ uiQ' = uiQ /\ lPc' = "done"

\* The listener sends Refresh and goes on; the send to a receiver that is gone
\* ends the thread.
SendsRefresh ==
    \/ uiQ' = Append(uiQ, RefreshCmd) /\ eventQ' = eventQ /\ lPc' = "poll" /\ lResult' = lResult
    \/ ~UiRxAlive /\ eventQ' = eventQ /\ uiQ' = uiQ /\ lPc' = "done"

\* C20: the listener gives every event it reads exactly one outcome: a plain
\* press of p or space sends TogglePause, of s sends Skip, of q makes the
\* listener return Ok with nothing sent; a resize sends Refresh; any other event
\* sends nothing and leaves the listener as it was.
C20_Classification ==
    [][\A ev \in InputEvents : ListenerHandle(ev) =>
          IF PlainPress(ev) /\ ev.code \in {"p", " "} THEN SendsIntent("TogglePause")
          ELSE IF PlainPress(ev) /\ ev.code = "s" THEN SendsIntent("Skip")
          ELSE IF PlainPress(ev) /\ ev.code = "q"
               THEN lPc' = "done" /\ lResult' = "Ok" /\ eventQ' = eventQ /\ uiQ' = uiQ
          ELSE IF ev.type = "Resize" THEN SendsRefresh
          ELSE lPc' = "poll" /\ lResult' = lResult /\ eventQ' = eventQ /\ uiQ' = uiQ]_vars

C20_Witness ==
    /\ quitRunning
    /\ inputs = 2
    /\ eventQ # <<>>
    /\ lResult = "Ok"

\* C21: a Refresh that cannot be sent because the Ui thread has ended is
\* dropped: while the scheduler still holds the event receiver, no step the
\* listener takes from its read with the Ui receiver gone ends it by a panic.
C21_RefreshBestEffort ==
    [][(lPc = "read" /\ ~UiRxAlive /\ EventRxAlive) => lResult' # "panic"]_vars

\* C22: a Draw command that cannot be sent because the Ui thread has ended is
\* taken as a request to terminate: no step of Timer::start with the Ui
\* receiver gone ends the thread of Session::start by a panic.
C22_DrawSendDisconnect ==
    [][(sPc \in {"tick", "wait", "expired"} /\ ~UiRxAlive) => startResult' # "panic"]_vars

\* The Draw commands of a sequence of commands, in their order.
DrawsOf(q) == SelectSeq(q, LAMBDA c : c.cmd = "Draw")

IsPrefix(a, b) == Len(a) <= Len(b) /\ a = SubSeq(b, 1, Len(a))

\* C23: the Draw commands the Ui thread has received are, in order, the first
\* Draw commands the scheduler sent, whatever Refresh commands the listener
\* sent in between; while the Ui thread runs, the Draw commands sent are those
\* received followed by those waiting in the channel: none is lost, none is
\* received twice, none overtakes another.
C23_DrawOrder ==
    /\ IsPrefix(DrawsOf(run.shown), run.emitted)
    /\ UiRxAlive => run.emitted = DrawsOf(run.shown) \o DrawsOf(uiQ)

\* Two commands wait in the channel, and the Ui thread has received a Refresh
\* between two Draw commands.
C23_Witness ==
    /\ UiRxAlive
    /\ Len(uiQ) >= 2
    /\ \E i \in 2..Len(run.shown) - 1 :
          /\ run.shown[i].cmd = "Refresh"
          /\ run.shown[i - 1].cmd = "Draw"
          /\ run.shown[i + 1].cmd = "Draw"

\* C24: when Session::start is called, the total of each of the three timers
\* is at least 1 and pomodoros is at least 1, whatever duration string and
\* whatever option -n the command line gave.
C24_PositivePolicy ==
    cli.pc = "start" => (\A k \in Kinds : timers[k].total >= 1) /\ pomodoros >= 1

Front(p) == SubSeq(p, 1, Len(p) - 1)
AllDigits(v) == \A i \in 1..Len(v) : IsDigit(v[i])

\* p is empty, or a number of at least 1 followed by the unit letter u.
IsComponent(p, u) ==
    p = <<>> \/ (Len(p) >= 2 /\ p[Len(p)] = u /\ AllDigits(Front(p)) /\ Value(Front(p)) >= 1)
ComponentValue(p) == IF p = <<>> THEN 0 ELSE Value(Front(p))

\* s has the form [<H>h][<M>m][<S>s] with at least one component, each
\* component at least 1, M < 60 and S < 60; if plain, moreover no number is
\* written with a leading zero and the seconds denoted fit usize.
HasForm(s, plain) ==
    /\ s # <<>>
    /\ \E i \in 0..Len(s) : \E j \in i..Len(s) :
          LET h == SubSeq(s, 1, i)
              m == SubSeq(s, i + 1, j)
              sec == SubSeq(s, j + 1, Len(s))
          IN /\ IsComponent(h, "h") /\ IsComponent(m, "m") /\ IsComponent(sec, "s")
             /\ ComponentValue(m) < 60
             /\ ComponentValue(sec) < 60
             /\ plain =>
                  /\ \A p \in {h, m, sec} : p = <<>> \/ p[1] # "0"
                  /\ 3600 * ComponentValue(h) + 60 * ComponentValue(m)
                        + ComponentValue(sec) <= UsizeMax

\* C26 (as stated): for every string of the form [<H>h][<M>m][<S>s] with at
\* least one component, each component at least 1, M < 60 and S < 60,
\* Timer::from_str succeeds and the Display of its result is the string.
C26_Original ==
    (cli.src = "str" /\ cli.pc # "args" /\ HasForm(cli.s, FALSE)) =>
        /\ cli.res.tag = "Ok"
        /\ cli.pc = "displayed" => cli.out = cli.s

\* C26 (as amended): the same for the strings of that form whose numbers are
\* written without leading zeros and whose number of seconds fits usize.
C26_ParseDisplayIdentity ==
    (cli.src = "str" /\ cli.pc # "args" /\ HasForm(cli.s, TRUE)) =>
        /\ cli.res.tag = "Ok"
        /\ cli.pc = "displayed" => cli.out = cli.s

C26_Witness ==
    /\ cli.pc = "displayed"
    /\ cli.src = "str"
    /\ HasForm(cli.s, TRUE)
    /\ Len(cli.s) >= 7

\* T = s + 60 * (m + 60 * h) for the arguments <<h, m, s>>.
TotalSeconds(a) == a[3] + 60 * (a[2] + 60 * a[1])

\* p writes the component v of unit u: nothing when v = 0, else the decimal
\* digits of v followed by u.
IsRendering(p, v, u) ==
    IF v = 0 THEN p = <<>>
    ELSE /\ Len(p) >= 2
         /\ p[Len(p)] = u
         /\ AllDigits(Front(p))
         /\ p[1] # "0"
         /\ Value(Front(p)) = v

\* out writes t seconds as <hours>h<minutes>m<seconds>s, zero components omitted.
Renders(out, t) ==
    \E i \in 0..Len(out) : \E j \in i..Len(out) :
       /\ IsRendering(SubSeq(out, 1, i), t \div 3600, "h")
       /\ IsRendering(SubSeq(out, i + 1, j), (t % 3600) \div 60, "m")
       /\ IsRendering(SubSeq(out, j + 1, Len(out)), t % 60, "s")

\* C27 (as stated): for all h, m, s, Timer::new(h, m, s) is displayed as the
\* normalised form of T = s + 60 * (m + 60 * h).
C27_Original ==
    (cli.src = "hms" /\ cli.pc # "args") =>
        /\ cli.res.tag = "Ok"
        /\ cli.pc = "displayed" => Renders(cli.out, TotalSeconds(cli.hms))

\* C27 (as amended): the same for all h, m, s whose T fits usize.
C27_DisplayNormalised ==
    (cli.src = "hms" /\ cli.pc # "args" /\ TotalSeconds(cli.hms) <= UsizeMax) =>
        /\ cli.res.tag = "Ok"
        /\ cli.pc = "displayed" => Renders(cli.out, TotalSeconds(cli.hms))

C27_Witness ==
    /\ cli.pc = "displayed"
    /\ cli.hms = <<0, 2, 122>>
    /\ cli.out = <<"4", "m", "2", "s">>

\* s is made of digits and unit letters, ends in a unit letter and has digits
\* before every unit letter.
WellFormed(s) ==
    /\ s # <<>>
    /\ \A i \in 1..Len(s) : IsDigit(s[i]) \/ s[i] \in UnitLetters
    /\ s[Len(s)] \in UnitLetters
    /\ \A i \in 1..Len(s) : s[i] \in UnitLetters => i > 1 /\ IsDigit(s[i - 1])

\* The number of seconds that the well-formed string s denotes from position
\* i on, num being the number read so far (numbers that do not fit usize
\* count as UsizeMax + 1).
RECURSIVE Seconds(_, _, _)
Seconds(s, i, num) ==
    IF i > Len(s) THEN 0
    ELSE IF IsDigit(s[i]) THEN Seconds(s, i + 1, Fit(10 * num + DigitVal(s[i])))
    ELSE num * (IF s[i] \in {"h", "H"} THEN 3600 ELSE IF s[i] \in {"m", "M"} THEN 60 ELSE 1)
            + Seconds(s, i + 1, 0)

\* C28: Timer::from_str does not panic; on a well-formed string it returns
\* TimerOverflow when the seconds denoted exceed usize::MAX and that number of
\* seconds otherwise (no wrapping); on any other string it returns ParseTimer.
C28_FromStrErrors ==
    (cli.src = "str" /\ cli.pc # "args") =>
        /\ cli.res.tag # "panic"
        /\ IF WellFormed(cli.s)
           THEN IF Seconds(cli.s, 1, 0) > UsizeMax
                THEN cli.res.tag = "TimerOverflow"
                ELSE cli.res = OkTimer(Seconds(cli.s, 1, 0))
           ELSE cli.res.tag = "ParseTimer"

\* C25: in a session that receives no intent, every interval that has ended
\* (but for a RenderTime error) has sent Draw(Running) with the residues total,
\* total-1, ..., 1 and then Draw(Expired); the k-th pomodoro carries the
\* ordinal k, and the break after it is the long one iff k mod pomodoros = 0.
C25_SessionDraws ==
    /\ (InRun /\ run.intents = 0 /\ sPc = "session"
          /\ runResult \notin {"none", "RenderTime"}) =>
          run.draws = Countdown(T.total) \o <<Sent("Expired", 0)>>
    /\ (activity.kind = "Pomodoro" /\ run.intents = 0) => activity.num = started
    /\ (activity.kind \in {"ShortBreak", "LongBreak"} /\ run.intents = 0) =>
          (activity.kind = "LongBreak") = (started % pomodoros = 0)

\* C29: when a run that went through expiry handling returns a terminate
\* value, false after the window or true on a disconnect in the window,
\* residue equals total.
C29_ResetOnExpiryReturn ==
    (InRun /\ sPc = "session" /\ run.notifies > 0 /\ runResult \in {"true", "false"}) =>
        T.residue = T.total

\* C30: a run calls notify at most once, and only in expiry handling: it has
\* not called it while it counts down or is paused, it has called it exactly
\* once, with its own activity, when it sends Draw(Expired), waits in the window
\* or returns false; and the call was made at residue 0 unless the run received
\* a Skip.
C30_NotifyOnceBeforeExpired ==
    InRun =>
        /\ run.notifies <= 1
        /\ sPc \in {"tick", "wait", "paused", "notify"} => run.notifies = 0
        /\ (sPc \in {"expired", "window"} \/ ExpiredSent \/ runResult = "false") =>
              run.notifies = 1
        /\ run.notifies = 1 => run.notifyAct = activity
        /\ (run.notifies = 1 /\ run.notifyRes > 0) => run.skipRes = run.notifyRes

\* A break has counted down to 0, notify was called once and Draw(Expired)
\* was sent after it.
C30_Witness ==
    /\ InRun
    /\ activity.kind # "Pomodoro"
    /\ run.notifies = 1
    /\ run.notifyRes = 0
    /\ ExpiredSent

\* The Draw(Paused) and Draw(Expired) commands among the draws d of a run.
PausedOrExpired(d) == SelectSeq(d, LAMBDA x : x.st \in {"Paused", "Expired"})

\* A receive of the scheduler returns: in the tick, while paused or in the window.
SchedulerReceives == TickWait \/ PausedWait \/ WindowWait

\* C31 (as stated): once the listener has returned on the quit key with intents
\* still queued, the scheduler calls notify no more and sends no Draw(Paused)
\* and no Draw(Expired) in the run.
C31_Original ==
    [][(lPc = "done" /\ lResult = "Ok" /\ eventQ # <<>> /\ InRun /\ sPc # "session") =>
          /\ run'.notifies = run.notifies
          /\ PausedOrExpired(run'.draws) = PausedOrExpired(run.draws)]_vars

\* C31 (as amended): intents queued when the listener exits are received
\* first; the first receive of the scheduler that finds the channel empty after
\* the listener has exited reports the disconnect, and the run returns
\* terminate = true from it with no call of notify and no Draw sent.
C31_DisconnectAfterQueue ==
    [][(lPc = "done" /\ SchedulerReceives) =>
          IF eventQ # <<>>
          THEN run'.last = Head(eventQ) /\ eventQ' = Tail(eventQ)
          ELSE /\ sPc' = "session"
               /\ runResult' = "true"
               /\ run'.last = "Disconnected"
               /\ run'.notifies = run.notifies
               /\ run'.draws = run.draws]_vars

\* The listener has returned on the quit key, the run has received an intent,
\* was paused by it, and then returned true on the disconnect.
C31_Witness ==
    /\ lPc = "done"
    /\ lResult = "Ok"
    /\ runResult = "true"
    /\ run.intents >= 1
    /\ run.last = "Disconnected"
    /\ run.lastAt = "paused"

\* C32: after Session::start has returned an error and dropped its intent
\* receiver, no event the listener reads makes it panic, whether the
\* cancellation signal was already sent or not (the Ui thread still running, so
\* that the event is not a resize that fails as in C21).
C32_ListenerSurvivesFault ==
    [][(lPc = "read" /\ sPc = "done" /\ startResult \in ErrResults /\ UiRxAlive) =>
          lResult' # "panic"]_vars

\* The Draw(Running) commands of a sequence of commands, in their order.
RunningOf(q) == SelectSeq(q, LAMBDA c : c.cmd = "Draw" /\ c.status = "Running")

\* C33: after the commands the Ui thread has received so far, its screen is
\* the status of the last Draw among them (Running when there is none) and its
\* timer data are the data of the last Draw(Running) among them (the default
\* when there is none); hence a Refresh changes neither, and Draw(Paused) and
\* Draw(Expired) leave the timer data as they are.
C33_SinkFollowsDraws ==
    /\ screen = IF DrawsOf(run.shown) = <<>> THEN "Running"
                ELSE DrawsOf(run.shown)[Len(DrawsOf(run.shown))].status
    /\ timer_data = IF RunningOf(run.shown) = <<>> THEN NoData
                    ELSE RunningOf(run.shown)[Len(RunningOf(run.shown))].data

\* The Ui thread has received a Draw(Running), later a Draw(Paused) and last a
\* Refresh: it shows the paused screen with the data of the snapshot.
C33_Witness ==
    /\ Len(run.shown) >= 3
    /\ run.shown[Len(run.shown)].cmd = "Refresh"
    /\ screen = "Paused"
    /\ timer_data # NoData

PausedDraws == SelectSeq(run.draws, LAMBDA x : x.st = "Paused")

\* C34: the scheduler waits for an intent in the countdown only after it sent
\* Draw(Running) with the current residue, and while paused only after it sent
\* Draw(Paused): so after a resume a snapshot with the unchanged residue is sent
\* before the next wait.  When a run of total d that received k pairs of
\* TogglePause and no Skip reaches expiry handling, it has sent d + k
\* Draw(Running) and k Draw(Paused).
C34_RedrawAfterResume ==
    InRun =>
        /\ sPc = "wait" =>
              run.draws # <<>> /\ run.draws[Len(run.draws)] = Sent("Running", T.residue)
        /\ sPc = "paused" =>
              run.draws # <<>> /\ run.draws[Len(run.draws)] = Sent("Paused", T.residue)
        /\ (sPc = "notify" /\ run.skipRes = 0) =>
              /\ run.intents % 2 = 0
              /\ Len(RunningSent) = T.total + run.intents \div 2
              /\ Len(PausedDraws) = run.intents \div 2

\* A run of total 2 was paused and resumed once and has reached expiry
\* handling: three snapshots and one Draw(Paused) were sent.
C34_Witness ==
    /\ InRun
    /\ sPc = "notify"
    /\ run.skipRes = 0
    /\ run.intents = 2
    /\ T.total = 2
    /\ Len(RunningSent) = 3

\* C35: with time in whole seconds, the time spent in the expired window
\* since Draw(Expired) was sent never exceeds EXPIRED_DURATION, whatever
\* intents are received in it.
C35_WindowBounded ==
    (InRun /\ ExpiredSent) => winElapsed <= EXPIRED_DURATION

=============================================================================
